---- MODULE Spec2Model ----
(***************************************************************************)
(* Model of pyppeteer/tracing.py: the Tracing class (start, stop and       *)
(* _readStream) driving a CDP session.  The session is an ordered,         *)
(* reliable channel: commands are answered in the order they were sent.    *)
(* A coroutine runs without interruption from one await to the next, so    *)
(* every action below is one such segment.                                 *)
(***************************************************************************)
EXTENDS Integers, Sequences, FiniteSets, TLC

\* ---- bounds -------------------------------------------------------------
MaxStarts == 2      \* start() calls in one behaviour
MaxStops == 2       \* stop() calls in one behaviour
MaxChunks == 2      \* the remote stream reports eof at the latest on this read

\* ---- values -------------------------------------------------------------
NoHandle == 0       \* event.get('stream') of a payload without 'stream': None
NoPath == ""        \* path = '' : no destination
Paths == {"p1"}
OldContent == "old" \* what a destination holds before any capture wrote it

StopIds == 1..MaxStops
StartIds == 1..MaxStarts
HandleIds == 1..MaxStops

ScreenshotToken == "disabled-by-default-devtools.screenshot"

\* defaultCategories as one list shared by all calls, after a start with
\* screenshots appended to it
defaultCategoriesShared ==
    << "-*", "devtools.timeline", "v8.execute",
       "disabled-by-default-devtools.timeline",
       "disabled-by-default-devtools.timeline.frame", "toplevel",
       "blink.console", "blink.user_timing", "latencyInfo",
       "disabled-by-default-devtools.timeline.stack",
       "disabled-by-default-v8.cpu_profiler",
       "disabled-by-default-v8.cpu_profiler.hires",
       "disabled-by-default-devtools.screenshot" >>

\* lines 43-56
defaultCategories ==
    << "-*",
       "devtools.timeline",
       "v8.execute",
       "disabled-by-default-devtools.timeline",
       "disabled-by-default-devtools.timeline.frame",
       "toplevel",
       "blink.console",
       "blink.user_timing",
       "latencyInfo",
       "disabled-by-default-devtools.timeline.stack",
       "disabled-by-default-v8.cpu_profiler",
       "disabled-by-default-v8.cpu_profiler.hires" >>

\* ','.join(categories) and ''.join(bufs)
RECURSIVE Join(_, _)
Join(seq, sep) ==
    IF seq = << >> THEN ""
    ELSE IF Len(seq) = 1 THEN seq[1]
    ELSE seq[1] \o sep \o Join(Tail(seq), sep)

\* The categories argument of start: a list object of the caller (used as
\* is, by reference), another iterable (copied by list()), or something
\* list() raises TypeError on (None, when omitted).
CatList == [kind |-> "list"]
CatTuple(elems) == [kind |-> "tuple", elems |-> elems]
CatNone == [kind |-> "none"]

\* the elements of the categories argument as the caller passed it
ArgElems(cat, callerObj) ==
    IF cat.kind = "list" THEN callerObj
    ELSE IF cat.kind = "tuple" THEN cat.elems
    ELSE << >>

\* ResolveCategories with list() left out: anything that is not a list falls
\* back to the default
ResolveCategoriesNoCoerce(cat, callerObj) ==
    IF cat.kind = "list" THEN callerObj ELSE defaultCategories

\* lines 58-62: the list start() goes on to use, before the screenshot token
ResolveCategories(cat, callerObj) ==
    IF cat.kind = "list" THEN callerObj
    ELSE IF cat.kind = "tuple" THEN cat.elems
    ELSE defaultCategories

\* lines 64-65: categories.append(...) when screenshots
AppendScreenshot(cats, screenshots) ==
    IF screenshots THEN Append(cats, ScreenshotToken) ELSE cats

\* GetEof with an absent 'eof' ending the loop
GetEofAbsentEnds(response) ==
    IF "eof" \in DOMAIN response THEN response.eof ELSE TRUE

\* line 95: response.get('eof', False)
GetEof(response) ==
    IF "eof" \in DOMAIN response THEN response.eof ELSE FALSE

\* line 96: response.get('data', '')
GetData(response) ==
    IF "data" \in DOMAIN response THEN response.data ELSE ""

\* BufsAppend leaving the loop on eof before the chunk is appended
BufsAppendSkipLast(b, response) ==
    IF "eof" \in DOMAIN response /\ response.eof THEN b
    ELSE Append(b, GetData(response))

\* line 96: bufs.append(response.get('data', ''))
BufsAppend(b, response) == Append(b, GetData(response))

\* The responses the remote side may give to an IO.read of an open stream.
Responses ==
    { [data |-> "a"],
      [data |-> "", eof |-> FALSE],
      [eof |-> FALSE],
      [data |-> "b", eof |-> TRUE] }
IsLast(r) == "eof" \in DOMAIN r /\ r.eof = TRUE
EofResponses == { r \in Responses : IsLast(r) }
PastEofResponse == [data |-> "", eof |-> TRUE]

VARIABLES
    recording,      \* self._recording
    path,           \* self._path
    callerList,     \* contents of the caller's list object passed as categories
    listeners,      \* one-shot listeners of 'Tracing.tracingComplete', by stop call
    startCmd,       \* the 'Tracing.start' command each start() call sent
    stopLog,        \* the once() and send() calls each stop() call made, in order
    inflight,       \* commands sent and not yet answered, oldest first
    nStarts,        \* start() calls made
    startArgs,      \* arguments of each start() call
    startStatus,    \* how each start() call ended: "none", "returned", "raised"
    nStops,         \* stop() calls made
    pc,             \* position of each stop() call
    calledRecording,\* self._recording when the stop() call was made
    capturePath,    \* self._path when the stop() call was made
    tpc,            \* position of the _readStream task the listener created
    thandle,        \* its handle argument
    tpath,          \* its path argument
    bufs,           \* its bufs
    resps,          \* the IO.read responses it received
    readSent,       \* number of IO.read it sent
    closeSent,      \* number of IO.close it sent
    written,        \* what it wrote: <<path, content>> or << >>
    contentFuture,  \* contentFuture of each stop() call
    stream,         \* remote side: chunks served and closed flag, per handle
    signalOf,       \* remote side: Tracing.end accepted, signal not yet emitted
    nSignals,       \* remote side: completion signals emitted
    file            \* contents of the destinations

vars == << recording, path, callerList, listeners, startCmd, stopLog, inflight,
           nStarts, startArgs, startStatus, nStops, pc, calledRecording, capturePath,
           tpc, thandle, tpath, bufs, resps, readSent, closeSent, written,
           contentFuture, stream, signalOf, nSignals, file >>

ctlVars == << recording, path, callerList, nStarts, startArgs, startStatus, startCmd >>
stopVars == << nStops, pc, calledRecording, capturePath, stopLog >>
taskVars == << tpc, thandle, tpath, bufs, resps, readSent, closeSent, written,
              contentFuture >>
remoteVars == << stream, signalOf, nSignals >>

Unset == [set |-> FALSE, val |-> ""]

\* Resolved with the done callback of line 83 not setting the result
ResolvedDropped(v) == [set |-> FALSE, val |-> v]

\* line 83: contentFuture.set_result(...)
Resolved(v) == [set |-> TRUE, val |-> v]

\* Tracing.__init__ (lines 26-29) and a fresh session
InitWith(lists) ==
    /\ recording = FALSE
    /\ path = NoPath
    /\ callerList \in lists
    /\ listeners = << >>
    /\ startCmd = [n \in StartIds |-> << >>]
    /\ stopLog = [s \in StopIds |-> << >>]
    /\ inflight = << >>
    /\ nStarts = 0
    /\ startArgs = [n \in StartIds |-> << >>]
    /\ startStatus = [n \in StartIds |-> "none"]
    /\ nStops = 0
    /\ pc = [s \in StopIds |-> "none"]
    /\ calledRecording = [s \in StopIds |-> FALSE]
    /\ capturePath = [s \in StopIds |-> NoPath]
    /\ tpc = [s \in StopIds |-> "none"]
    /\ thandle = [s \in StopIds |-> NoHandle]
    /\ tpath = [s \in StopIds |-> NoPath]
    /\ bufs = [s \in StopIds |-> << >>]
    /\ resps = [s \in StopIds |-> << >>]
    /\ readSent = [s \in StopIds |-> 0]
    /\ closeSent = [s \in StopIds |-> 0]
    /\ written = [s \in StopIds |-> << >>]
    /\ contentFuture = [s \in StopIds |-> Unset]
    /\ stream = [h \in HandleIds |-> [served |-> << >>, closed |-> FALSE]]
    /\ signalOf = 0
    /\ nSignals = 0
    /\ file = [p \in Paths |-> OldContent]

Init == InitWith({ << "cat1", "cat2" >> })

\* ---- the commands on the wire -------------------------------------------
OnceEntry == [op |-> "once", name |-> "Tracing.tracingComplete"]
EndEntry == [op |-> "send", name |-> "Tracing.end"]
StartCommand(cats) ==
    [method |-> "Tracing.start", transferMode |-> "ReturnAsStream",
     categories |-> Join(cats, ",")]

Pending(method, who) == [method |-> method, who |-> who]

\* the call `who` is suspended in `await self._client.send(method, ...)`
Awaiting(method, who) ==
    \E i \in 1..Len(inflight) : inflight[i] = Pending(method, who)

\* ---- Tracing.start, lines 31-71 ------------------------------------------
\* The await of line 69 is the last statement: start returns when the
\* session answers, or raises what send raised (ok = FALSE).
StartCall(p, screenshots, cat, ok) ==
    /\ nStarts < MaxStarts
    /\ LET n == nStarts + 1
           categories == AppendScreenshot(ResolveCategories(cat, callerList), screenshots)
       IN  /\ nStarts' = n
           /\ startArgs' = [startArgs EXCEPT ![n] =
                  [path |-> p, screenshots |-> screenshots, kind |-> cat.kind,
                   elems |-> ArgElems(cat, callerList)]]
           /\ callerList' = IF cat.kind = "list" THEN categories ELSE callerList
           /\ path' = p
           /\ recording' = TRUE
           /\ startCmd' = [startCmd EXCEPT ![n] = StartCommand(categories)]
           /\ startStatus' = [startStatus EXCEPT ![n] =
                                    IF ok THEN "returned" ELSE "raised"]
    /\ UNCHANGED << listeners, inflight, stopVars, taskVars, remoteVars, file >>

\* ---- Tracing.stop, lines 73-87 -------------------------------------------
\* StopCall with lines 79-84 and line 85 exchanged: the command is sent
\* first, the listener is armed after it
StopCallSendFirst(s) ==
    /\ nStops < MaxStops
    /\ s = nStops + 1
    /\ nStops' = s
    /\ calledRecording' = [calledRecording EXCEPT ![s] = recording]
    /\ capturePath' = [capturePath EXCEPT ![s] = path]
    /\ listeners' = Append(listeners, s)
    /\ stopLog' = [stopLog EXCEPT ![s] = << EndEntry, OnceEntry >>]
    /\ inflight' = Append(inflight, Pending("Tracing.end", s))
    /\ pc' = [pc EXCEPT ![s] = "awaitEnd"]
    /\ UNCHANGED << ctlVars, taskVars, remoteVars, file >>

\* lines 78-85 up to the await: create the future, arm the listener, send
StopCall(s) ==
    /\ nStops < MaxStops
    /\ s = nStops + 1
    /\ nStops' = s
    /\ calledRecording' = [calledRecording EXCEPT ![s] = recording]
    /\ capturePath' = [capturePath EXCEPT ![s] = path]
    /\ listeners' = Append(listeners, s)
    /\ stopLog' = [stopLog EXCEPT ![s] = << OnceEntry, EndEntry >>]
    /\ inflight' = Append(inflight, Pending("Tracing.end", s))
    /\ pc' = [pc EXCEPT ![s] = "awaitEnd"]
    /\ UNCHANGED << ctlVars, taskVars, remoteVars, file >>

\* the await of line 85 ends; line 86 runs only when send did not raise
RespondEnd(ok) ==
    /\ inflight # << >>
    /\ Head(inflight).method = "Tracing.end"
    /\ inflight' = Tail(inflight)
    /\ LET s == Head(inflight).who
       IN  IF ok
           THEN /\ recording' = FALSE
                /\ pc' = [pc EXCEPT ![s] = "awaitContent"]
                /\ signalOf' = signalOf + 1
           ELSE /\ pc' = [pc EXCEPT ![s] = "raised"]
                /\ UNCHANGED << recording, signalOf >>
    /\ UNCHANGED << path, callerList, nStarts, startArgs, startStatus, startCmd,
                    listeners, nStops, calledRecording, capturePath, stopLog,
                    taskVars, stream, nSignals, file >>

\* line 87: contentFuture is resolved, stop returns its value
StopReturn(s) ==
    /\ pc[s] = "awaitContent"
    /\ contentFuture[s].set
    /\ pc' = [pc EXCEPT ![s] = "returned"]
    /\ UNCHANGED << ctlVars, listeners, inflight, nStops, calledRecording,
                    capturePath, stopLog, taskVars, remoteVars, file >>

\* ---- the completion signal, lines 79-84 ----------------------------------
\* The remote side emits 'Tracing.tracingComplete'.  Every armed one-shot
\* listener fires, in registration order, and is removed; each creates a
\* _readStream task with the handle of the payload and self._path as it is
\* now, and each task runs to its first IO.read (line 94).
RECURSIVE PendingReads(_)
PendingReads(ls) ==
    IF ls = << >> THEN << >>
    ELSE << Pending("IO.read", Head(ls)) >> \o PendingReads(Tail(ls))

Fired == { listeners[i] : i \in 1..Len(listeners) }

SignalComplete(h) ==
    /\ signalOf > 0
    /\ h \in {NoHandle, nSignals + 1}
    /\ signalOf' = signalOf - 1
    /\ nSignals' = nSignals + 1
    /\ listeners' = << >>
    /\ tpc' = [s \in StopIds |-> IF s \in Fired THEN "read" ELSE tpc[s]]
    /\ thandle' = [s \in StopIds |-> IF s \in Fired THEN h ELSE thandle[s]]
    /\ tpath' = [s \in StopIds |-> IF s \in Fired THEN path ELSE tpath[s]]
    /\ readSent' = [s \in StopIds |-> IF s \in Fired THEN 1 ELSE readSent[s]]
    /\ inflight' = inflight \o PendingReads(listeners)
    /\ UNCHANGED << ctlVars, stopVars, bufs, resps, closeSent, written,
                    contentFuture, stream, file >>

\* ---- Tracing._readStream, lines 89-104 -----------------------------------
\* What the remote side may answer to an IO.read of handle h.
StreamEnded(h) ==
    \E i \in 1..Len(stream[h].served) : IsLast(stream[h].served[i])

ReadAnswers(h) ==
    IF h = NoHandle \/ stream[h].closed THEN {}
    ELSE IF StreamEnded(h) THEN {PastEofResponse}
    ELSE IF Len(stream[h].served) + 1 >= MaxChunks THEN EofResponses
    ELSE Responses

\* a task ends with an exception: the done callback of line 83 calls
\* fut.result(), which raises inside the callback; contentFuture stays unset
TaskRaises(t) ==
    /\ tpc' = [tpc EXCEPT ![t] = "failed"]
    /\ UNCHANGED contentFuture

\* the await of line 94 ends with a response; lines 95-96, then either the
\* next IO.read or, past the loop, IO.close (line 97)
ReadOk(t, response) ==
    /\ inflight # << >>
    /\ Head(inflight) = Pending("IO.read", t)
    /\ response \in ReadAnswers(thandle[t])
    /\ LET h == thandle[t]
           eof == GetEof(response)
       IN  /\ stream' = IF StreamEnded(h) THEN stream
                        ELSE [stream EXCEPT ![h].served = Append(@, response)]
           /\ bufs' = [bufs EXCEPT ![t] = BufsAppend(@, response)]
           /\ resps' = [resps EXCEPT ![t] = Append(@, response)]
           /\ IF eof
              THEN /\ tpc' = [tpc EXCEPT ![t] = "close"]
                   /\ inflight' = Append(Tail(inflight), Pending("IO.close", t))
                   /\ closeSent' = [closeSent EXCEPT ![t] = @ + 1]
                   /\ UNCHANGED readSent
              ELSE /\ inflight' = Append(Tail(inflight), Pending("IO.read", t))
                   /\ readSent' = [readSent EXCEPT ![t] = @ + 1]
                   /\ UNCHANGED << tpc, closeSent >>
    /\ UNCHANGED << ctlVars, listeners, stopVars, thandle, tpath, written,
                    contentFuture, signalOf, nSignals, file >>

\* the await of line 94 raises: _readStream ends there
ReadFails(t) ==
    /\ inflight # << >>
    /\ Head(inflight) = Pending("IO.read", t)
    /\ inflight' = Tail(inflight)
    /\ TaskRaises(t)
    /\ UNCHANGED << ctlVars, listeners, stopVars, thandle, tpath, bufs,
                    resps, readSent, closeSent, written, remoteVars, file >>

\* the await of line 97 ends; lines 99-104 and the done callback of line 83.
\* writeOk = FALSE: file.open('w') raises (the destination cannot be written)
CloseOk(t, writeOk) ==
    /\ inflight # << >>
    /\ Head(inflight) = Pending("IO.close", t)
    /\ thandle[t] # NoHandle
    /\ ~stream[thandle[t]].closed
    /\ inflight' = Tail(inflight)
    /\ stream' = [stream EXCEPT ![thandle[t]].closed = TRUE]
    /\ LET result == Join(bufs[t], "")
       IN  IF tpath[t] = NoPath
           THEN /\ writeOk
                /\ tpc' = [tpc EXCEPT ![t] = "done"]
                /\ contentFuture' = [contentFuture EXCEPT ![t] = Resolved(result)]
                /\ UNCHANGED << file, written >>
           ELSE IF writeOk
           THEN /\ file' = [file EXCEPT ![tpath[t]] = result]
                /\ written' = [written EXCEPT ![t] = << tpath[t], result >>]
                /\ tpc' = [tpc EXCEPT ![t] = "done"]
                /\ contentFuture' = [contentFuture EXCEPT ![t] = Resolved(result)]
           ELSE /\ TaskRaises(t)
                /\ UNCHANGED << file, written >>
    /\ UNCHANGED << ctlVars, listeners, stopVars, thandle, tpath, bufs,
                    resps, readSent, closeSent, signalOf, nSignals >>

\* the await of line 97 raises
CloseFails(t) ==
    /\ inflight # << >>
    /\ Head(inflight) = Pending("IO.close", t)
    /\ inflight' = Tail(inflight)
    /\ TaskRaises(t)
    /\ UNCHANGED << ctlVars, listeners, stopVars, thandle, tpath, bufs,
                    resps, readSent, closeSent, written, remoteVars, file >>

\* ---- specification -------------------------------------------------------
Next ==
    \/ \E p \in Paths \cup {NoPath} : StartCall(p, FALSE, CatNone, TRUE)
    \/ \E s \in StopIds : StopCall(s)
    \/ \E ok \in BOOLEAN : RespondEnd(ok)
    \/ \E s \in StopIds : StopReturn(s)
    \/ \E h \in HandleIds \cup {NoHandle} : SignalComplete(h)
    \/ \E t \in StopIds, r \in Responses \cup {PastEofResponse} : ReadOk(t, r)
    \/ \E t \in StopIds : ReadFails(t)
    \/ \E t \in StopIds, w \in BOOLEAN : CloseOk(t, w)
    \/ \E t \in StopIds : CloseFails(t)

Spec == Init /\ [][Next]_vars

\* ---- one caller that keeps to "only one trace can be active at a time" ----
\* (docstring, line 34): it awaits each call before it makes the next one,
\* starts only when no capture is recording and stops only one that is.
Suspended ==
    \E s \in StopIds : pc[s] \in {"awaitEnd", "awaitContent"}

NextSerial ==
    \/ /\ ~Suspended /\ ~recording
       /\ \E p \in Paths \cup {NoPath} : StartCall(p, FALSE, CatNone, TRUE)
    \/ /\ ~Suspended /\ recording
       /\ \E s \in StopIds : StopCall(s)
    \/ \E ok \in BOOLEAN : RespondEnd(ok)
    \/ \E s \in StopIds : StopReturn(s)
    \/ \E h \in HandleIds \cup {NoHandle} : SignalComplete(h)
    \/ \E t \in StopIds, r \in Responses \cup {PastEofResponse} : ReadOk(t, r)
    \/ \E t \in StopIds : ReadFails(t)
    \/ \E t \in StopIds, w \in BOOLEAN : CloseOk(t, w)
    \/ \E t \in StopIds : CloseFails(t)

SpecSerial == Init /\ [][NextSerial]_vars

\* ---- the same caller on a session that answers every command, delivers
\* every completion signal with a stream handle, and a destination that can
\* be written --------------------------------------------------------------
StartSerial ==
    /\ ~Suspended /\ ~recording
    /\ \E p \in Paths \cup {NoPath} : StartCall(p, FALSE, CatNone, TRUE)
StopSerial ==
    /\ ~Suspended /\ recording
    /\ \E s \in StopIds : StopCall(s)
EndAnswered == RespondEnd(TRUE)
SignalDelivered == SignalComplete(nSignals + 1)
ReadAnswered == \E t \in StopIds, r \in Responses \cup {PastEofResponse} : ReadOk(t, r)
CloseAnswered == \E t \in StopIds : CloseOk(t, TRUE)
StopResumed == \E s \in StopIds : StopReturn(s)

NextLive ==
    \/ StartSerial
    \/ StopSerial
    \/ EndAnswered
    \/ SignalDelivered
    \/ ReadAnswered
    \/ CloseAnswered
    \/ StopResumed

SpecLive ==
    /\ Init /\ [][NextLive]_vars
    /\ WF_vars(EndAnswered)
    /\ WF_vars(SignalDelivered)
    /\ WF_vars(ReadAnswered)
    /\ WF_vars(CloseAnswered)
    /\ WF_vars(StopResumed)

\* ---- start() alone, over all kinds of categories argument -----------------
CallerLists == { << >>, << "cat1", "cat2" >> }
StartCats == { CatList, CatNone, CatTuple(<< >>), CatTuple(<< "cat1" >>),
               CatTuple(<< "cat1", "cat2" >>) }

InitStart == InitWith(CallerLists)

NextStart ==
    \E p \in Paths \cup {NoPath}, screenshots \in BOOLEAN, cat \in StartCats,
       ok \in BOOLEAN : StartCall(p, screenshots, cat, ok)

SpecStart == InitStart /\ [][NextStart]_vars

\* ---- properties ------------------------------------------------------------
\* the chunks of a sequence of IO.read responses, concatenated in order
RECURSIVE ChunksOf(_)
ChunksOf(rs) ==
    IF rs = << >> THEN ""
    ELSE ChunksOf(SubSeq(rs, 1, Len(rs) - 1))
         \o (IF "data" \in DOMAIN rs[Len(rs)] THEN rs[Len(rs)].data ELSE "")

\* a sequence of tokens with a comma between neighbours
RECURSIVE Commas(_)
Commas(ts) ==
    IF Len(ts) = 0 THEN ""
    ELSE IF Len(ts) = 1 THEN ts[1]
    ELSE Commas(SubSeq(ts, 1, Len(ts) - 1)) \o "," \o ts[Len(ts)]

DefaultFilter ==
    "-*,devtools.timeline,v8.execute,disabled-by-default-devtools.timeline,"
    \o "disabled-by-default-devtools.timeline.frame,toplevel,blink.console,"
    \o "blink.user_timing,latencyInfo,disabled-by-default-devtools.timeline.stack,"
    \o "disabled-by-default-v8.cpu_profiler,disabled-by-default-v8.cpu_profiler.hires"

\* C1: in every stop call the one-shot listener of 'Tracing.tracingComplete'
\* is registered before 'Tracing.end' is sent: whenever a stop call has sent
\* 'Tracing.end', its once() call comes earlier in the call order and its
\* listener is armed on the session or has already fired.
C1_ListenerArmedBeforeEnd ==
    \A s \in StopIds : \A j \in 1..Len(stopLog[s]) :
        stopLog[s][j] = EndEntry =>
            /\ \E i \in 1..(j - 1) : stopLog[s][i] = OnceEntry
            /\ (s \in Fired \/ tpc[s] # "none")

\* a stop call whose 'Tracing.end' is in flight while its listener is armed
C1_Witness ==
    \E s \in StopIds :
        /\ pc[s] = "awaitEnd"
        /\ Awaiting("Tracing.end", s)
        /\ s \in Fired

\* C2: every drain that has ended, with a result or with a failure, has sent
\* 'IO.close' for its handle exactly once.
C2_CloseExactlyOnce ==
    \A t \in StopIds : tpc[t] \in {"done", "failed"} => closeSent[t] = 1

\* C3: a failure anywhere in the chain started by stop ends that stop call
\* with an error: once the drain has failed, stop has raised or its
\* contentFuture holds the outcome it will end with.
C3_FailureSurfaces ==
    \A s \in StopIds :
        tpc[s] = "failed" => (pc[s] = "raised" \/ contentFuture[s].set)

\* C4: a stop call that has returned returned the concatenation of all the
\* chunks of the stream whose handle the completion signal carried.
C4_ReturnsWholeStream ==
    \A s \in StopIds :
        pc[s] = "returned" =>
            /\ thandle[s] # NoHandle
            /\ contentFuture[s].val = ChunksOf(stream[thandle[s]].served)

\* C5: a drain sends one IO.read at a time until the first response with
\* eof = true and none after it: an empty chunk, an absent 'data' or an
\* absent 'eof' does not end the loop, and the loop is left only on eof (or
\* by a read that raised, which is the one read without a response).
C5_ReadsUntilEof ==
    \A t \in StopIds :
        /\ readSent[t] = Len(resps[t])
                         + (IF \/ Awaiting("IO.read", t)
                               \/ (tpc[t] = "failed" /\ closeSent[t] = 0)
                            THEN 1 ELSE 0)
        /\ \A i \in 1..Len(resps[t]) :
               IsLast(resps[t][i]) => (i = Len(resps[t]) /\ readSent[t] = i)
        /\ tpc[t] \in {"close", "done"} =>
               (resps[t] # << >> /\ IsLast(resps[t][Len(resps[t])]))
        /\ closeSent[t] > 0 =>
               (resps[t] # << >> /\ IsLast(resps[t][Len(resps[t])]))

\* a drain that went on after an empty chunk and ended on eof
C5_Witness ==
    \E t \in StopIds :
        /\ tpc[t] = "done"
        /\ readSent[t] = 2
        /\ resps[t] = << [data |-> "", eof |-> FALSE], [data |-> "b", eof |-> TRUE] >>

\* C6: the value a drain returns is the concatenation of the 'data' of all
\* the responses it received, in the order of its reads, the chunk of the
\* eof response included and an absent 'data' counting as empty.
C6_ResultIsConcatenation ==
    \A t \in StopIds :
        /\ Join(bufs[t], "") = ChunksOf(resps[t])
        /\ contentFuture[t].set => contentFuture[t].val = ChunksOf(resps[t])

\* a drain that returned "ab" from the chunks "a" and "b"
C6_Witness ==
    \E t \in StopIds :
        /\ contentFuture[t].set
        /\ resps[t] = << [data |-> "a"], [data |-> "b", eof |-> TRUE] >>
        /\ contentFuture[t].val = "ab"

\* C7: a stop that is called while CaptureState is Idle fails with a
\* state-misuse error, having armed no listener and sent no 'Tracing.end'.
C7_StopWhileIdleRejected ==
    \A s \in StopIds :
        (pc[s] # "none" /\ ~calledRecording[s]) =>
            (pc[s] = "raised" /\ stopLog[s] = << >>)

\* C8 as stated: for a list-like C the 'categories' parameter is C joined by
\* commas, followed by ',disabled-by-default-devtools.screenshot' iff
\* screenshots, with transferMode 'ReturnAsStream'.
C8_Original ==
    \A n \in StartIds :
        (startStatus[n] # "none" /\ startArgs[n].kind \in {"list", "tuple"}) =>
            /\ startCmd[n].transferMode = "ReturnAsStream"
            /\ startCmd[n].categories =
                   Commas(startArgs[n].elems)
                   \o (IF startArgs[n].screenshots
                       THEN "," \o "disabled-by-default-devtools.screenshot"
                       ELSE "")

\* C8 as amended: the same for every non-empty list-like C; for an empty C
\* the parameter is the screenshot token alone when screenshots is true (no
\* leading comma) and the empty string when it is false.
C8_CategoriesSerialized ==
    \A n \in StartIds :
        (startStatus[n] # "none" /\ startArgs[n].kind \in {"list", "tuple"}) =>
            /\ startCmd[n].transferMode = "ReturnAsStream"
            /\ startCmd[n].categories =
                   IF startArgs[n].elems = << >>
                   THEN (IF startArgs[n].screenshots
                         THEN "disabled-by-default-devtools.screenshot" ELSE "")
                   ELSE Commas(startArgs[n].elems)
                        \o (IF startArgs[n].screenshots
                            THEN "," \o "disabled-by-default-devtools.screenshot"
                            ELSE "")

\* a start with the tuple ('cat1', 'cat2') and screenshots
C8_Witness ==
    \E n \in StartIds :
        /\ startStatus[n] # "none"
        /\ startArgs[n].kind = "tuple"
        /\ startArgs[n].elems = << "cat1", "cat2" >>
        /\ startArgs[n].screenshots
        /\ startCmd[n].categories = "cat1,cat2,disabled-by-default-devtools.screenshot"

\* C9: every start without a list-like categories argument sends the twelve
\* default tokens in their order, plus the screenshot token once iff
\* screenshots, whatever starts came before it.
C9_DefaultFilter ==
    \A n \in StartIds :
        (startStatus[n] # "none" /\ startArgs[n].kind = "none") =>
            startCmd[n].categories =
                DefaultFilter
                \o (IF startArgs[n].screenshots
                    THEN ",disabled-by-default-devtools.screenshot" ELSE "")

\* a default start without screenshots after a default start with screenshots
C9_Witness ==
    /\ nStarts = 2
    /\ startArgs[1].kind = "none" /\ startArgs[1].screenshots
    /\ startArgs[2].kind = "none" /\ ~startArgs[2].screenshots
    /\ startCmd[2].categories = DefaultFilter

\* C10: when stop has returned, the drain has written the returned value to
\* the destination of the start that began the capture, if it gave one, and
\* has written nothing if it gave none.
C10_DestinationWritten ==
    \A s \in StopIds :
        pc[s] = "returned" =>
            IF capturePath[s] # NoPath
            THEN written[s] = << capturePath[s], contentFuture[s].val >>
            ELSE written[s] = << >>

\* C11: CaptureState is Idle whenever a stop call ends, with a result or
\* with a failure (a failed send of 'Tracing.end' included).
C11_IdleWhenStopEnds ==
    [][\A s \in StopIds :
          (pc[s] \in {"awaitEnd", "awaitContent"} /\ pc'[s] \in {"returned", "raised"})
              => ~recording']_vars

\* C12: a start whose send of 'Tracing.start' fails raises to its caller and
\* leaves CaptureState Idle if it was Idle.
C12_FailedStartStaysIdle ==
    [][\A n \in StartIds :
          (startStatus[n] = "none" /\ startStatus'[n] = "raised" /\ ~recording)
              => ~recording']_vars

\* C13: a start that is called while CaptureState is Recording is rejected:
\* it sends no 'Tracing.start' and leaves the destination path and
\* CaptureState of the running capture as they are.
C13_StartWhileRecordingRejected ==
    [][(nStarts' = nStarts + 1 /\ recording) =>
          /\ startCmd'[nStarts'] = << >>
          /\ startStatus'[nStarts'] = "raised"
          /\ path' = path
          /\ recording' = recording]_vars

\* C14: a completion signal without a stream handle starts no drain of an
\* absent handle: no 'IO.read' and no 'IO.close' is sent for it, and the
\* stop call waiting on it is given the error.
C14_NoDrainOfAbsentHandle ==
    \A s \in StopIds :
        (tpc[s] # "none" /\ thandle[s] = NoHandle) =>
            /\ readSent[s] = 0
            /\ closeSent[s] = 0
            /\ (pc[s] = "awaitContent" => contentFuture[s].set)

\* C15: once a stop call has ended, in whatever way, the listener it armed
\* is no longer registered on the session.
C15_NoListenerAfterStop ==
    \A s \in StopIds :
        pc[s] \in {"returned", "raised"} => s \notin Fired

\* C16: at most one 'IO.read' is outstanding for a stream handle at any
\* time, and no 'IO.read' is sent for a handle once an 'IO.close' was sent
\* for it.
C16_ReadsOfAHandleSequential ==
    /\ [](\A h \in HandleIds :
            Cardinality({ i \in 1..Len(inflight) :
                            /\ inflight[i].method = "IO.read"
                            /\ thandle[inflight[i].who] = h }) <= 1)
    /\ [][\A t \in StopIds :
            (readSent'[t] > readSent[t]) =>
                ~(\E u \in StopIds : thandle[u] = thandle'[t] /\ closeSent[u] > 0)]_vars

\* C18: start leaves the list the caller passed as categories as it was.
C18_CallerListUnchanged ==
    [][nStarts' = nStarts + 1 => callerList' = callerList]_vars

\* C19: the drain of a stop call is given the destination of the start that
\* began the capture being stopped, whatever start runs between the
\* 'Tracing.end' of that stop and its completion signal.
C19_DrainGetsPathOfItsCapture ==
    \A s \in StopIds :
        (tpc[s] # "none" /\ calledRecording[s]) => tpath[s] = capturePath[s]

====
